---- MODULE Spec2Model ----
(***************************************************************************)
(* A model of the E-Mandi marketplace backend (src/app.py): the User, Lot  *)
(* and Bid tables, the SMS command interpreter (LIST, BID, COLLECTIVE),    *)
(* and the dashboard endpoints (lots, generate_contract, confirm_sale).    *)
(*                                                                         *)
(* Rows are records, tables are sequences, and a row's primary key is its  *)
(* index in the table (rows are never deleted).  A nullable column holds   *)
(* None (the empty sequence) or Some(v) (a one element sequence).  Floats  *)
(* are modelled by the integers the message tokens parse to.  A table      *)
(* holds what the code assigns to it; the login code of a new user is any  *)
(* code not in use.                                                        *)
(*                                                                         *)
(* reply, sent and emitted hold the outputs of the request handled last.   *)
(* joined is a history variable: the contributions each lot was told it    *)
(* has received.                                                           *)
(*                                                                         *)
(* Spec runs every request atomically.  SpecCollective does too, with two  *)
(* sizes of contribution.  SpecFormat offers every message, well formed or *)
(* not, to every branch of the interpreter.  SpecRace runs COLLECTIVE      *)
(* requests as two steps each (up to the query, then the write-back and    *)
(* commit), which is what concurrent request handling allows.              *)
(***************************************************************************)
EXTENDS Integers, Sequences, FiniteSets, TLC

VARIABLES users,    \* the User table
          lots,     \* the Lot table
          bids,     \* the Bid table
          joined,   \* history: per lot, the <<user id, quantity>> of every
                    \* COLLECTIVE request that replied success for it
          reply,    \* the response to the request handled last
          sent,     \* the send_sms calls that request made, in order
          emitted,  \* the socketio events that request emitted, in order
          pc,       \* SpecRace: where each in-flight COLLECTIVE request is
          loc,      \* SpecRace: the local variables of each such request
          twilio    \* how the SMS provider is set up and answers

vars == <<users, lots, bids, joined, reply, sent, emitted, pc, loc, twilio>>

-----------------------------------------------------------------------------
(* Bounds of the model.                                                    *)

\* The lots, bids and collective joins the tables may hold altogether.
MaxRows == 3

-----------------------------------------------------------------------------
(* Values.                                                                 *)

None == <<>>
Some(v) == <<v>>

\* Python truthiness of a nullable number: None and 0 are false.
Truthy(o) == o # None /\ o[1] # 0

\* x or 0
OrZero(o) == IF Truthy(o) THEN o[1] ELSE 0

RECURSIVE SeqSum(_)
SeqSum(s) == IF s = <<>> THEN 0 ELSE s[1] + SeqSum(Tail(s))

SetMax(S) == CHOOSE x \in S : \A y \in S : y <= x
SetMin(S) == CHOOSE x \in S : \A y \in S : x <= y

\* The senders: request.values.get('From', '') is '' when the field is absent.
Phones == {"", "+911"}

\* The senders of BID commands.
Bidders == {"+911"}

\* The login codes random.randint draws; the model draws one not in use.
Codes == {"000000000001", "000000000002"}

MSP_WHEAT == 2275
MSP_RICE == 2203
MSP_MAIZE == 2090

\* MSP_PRICES.get(crop)
MSP_PRICES(crop) ==
    CASE crop = "wheat" -> Some(MSP_WHEAT)
      [] crop = "rice"  -> Some(MSP_RICE)
      [] crop = "maize" -> Some(MSP_MAIZE)
      [] OTHER          -> None

-----------------------------------------------------------------------------
(* Message text.  A body is the sequence of the tokens between its single  *)
(* spaces, as split(' ') cuts it after strip().                            *)

\* str.lower() on a token
Lower(t) ==
    CASE t = "LIST"       -> "list"
      [] t = "BID"        -> "bid"
      [] t = "COLLECTIVE" -> "collective"
      [] t = "WHEAT"      -> "wheat"
      [] t = "DELHI"      -> "delhi"
      [] OTHER            -> t

\* body.strip().lower().split(' ')
Parts(body) == [i \in 1..Len(body) |-> Lower(body[i])]

\* float(tok): the tokens that parse, and their values
FloatTable ==
    ("0" :> 0) @@ ("1" :> 1) @@ ("2" :> 2) @@ ("3" :> 3) @@ ("-5" :> -5) @@
    ("50" :> 50) @@ ("100" :> 100) @@ ("2000" :> 2000) @@ ("2300" :> 2300) @@
    ("1e0" :> 1)

IsFloat(t) == t \in DOMAIN FloatTable
Float(t) == FloatTable[t]

\* int(tok): an exponent form is a float literal, not an int literal
IsInt(t) == IsFloat(t) /\ t # "1e0"
Int_(t) == FloatTable[t]


-----------------------------------------------------------------------------
(* Rows.  The timestamp column of Bid is not modelled: nothing reads it.   *)

UserRow(phone, utype, district, code) ==
    [phone_number |-> phone, user_type |-> utype, district |-> district,
     login_code |-> code]

\* Lot(...) with the column defaults: status 'open', members "[]"
LotRow(farmer_id, crop, quantity, min_price, collective, members) ==
    [farmer_id |-> farmer_id, crop_type |-> crop, quantity_kg |-> quantity,
     min_price |-> min_price, status |-> "open", is_collective |-> collective,
     members |-> members]

BidRow(lot_id, bidder_id, amount) ==
    [lot_id |-> lot_id, bidder_id |-> bidder_id, bid_amount |-> amount]

\* One send_sms call: the recipient and what the text says.
Msg(to, kind, lot_id, amount) ==
    [to |-> to, kind |-> kind, lot_id |-> lot_id, amount |-> amount]

\* One socketio.emit call.
\* Event that carries no amount.
EventWithoutAmount(name, lot_id, amount) ==
    [event |-> name, lot_id |-> lot_id, bid_amount |-> 0]

Event(name, lot_id, amount) ==
    [event |-> name, lot_id |-> lot_id, bid_amount |-> amount]

Reply(kind, status, data) == [kind |-> kind, status |-> status, data |-> data]

-----------------------------------------------------------------------------
(* Queries.                                                                *)

\* User.query.filter_by(phone_number=phone).first(): the id, 0 for no row
FindUser(us, phone) ==
    LET S == {i \in 1..Len(us) : us[i].phone_number = phone}
    IN  IF S = {} THEN 0 ELSE SetMin(S)

\* Lot.query.get(lot_id) finds a row
LotExists(ls, lot_id) == lot_id \in 1..Len(ls)

\* The ids of the bids of one lot, filter_by(lot_id=...)
BidsOf(bs, lot_id) == {i \in 1..Len(bs) : bs[i].lot_id = lot_id}

\* ScalarMax without the filter on lot_id.
ScalarMaxAll(bs, lot_id) ==
    IF bs = <<>> THEN None
    ELSE Some(SetMax({bs[i].bid_amount : i \in 1..Len(bs)}))

\* db.func.max(Bid.bid_amount) ... .scalar(): None over no rows
ScalarMax(bs, lot_id) ==
    IF BidsOf(bs, lot_id) = {} THEN None
    ELSE Some(SetMax({bs[i].bid_amount : i \in BidsOf(bs, lot_id)}))

\* highest_bid = db.session.query(db.func.max(...)).filter_by(...).scalar() or 0
HighestBid(bs, lot_id) == OrZero(ScalarMax(bs, lot_id))

\* Bid.query.filter_by(lot_id=..., bid_amount=amount).first(): the id, 0 for no row
FirstBidAt(bs, lot_id, amount) ==
    LET S == {i \in BidsOf(bs, lot_id) : bs[i].bid_amount = amount}
    IN  IF S = {} THEN 0 ELSE SetMin(S)

\* FirstOpenCollective without the filter on the status.
FirstCollective(ls, crop) ==
    LET S == {i \in 1..Len(ls) : ls[i].is_collective /\ ls[i].crop_type = crop}
    IN  IF S = {} THEN 0 ELSE SetMin(S)

\* Lot.query.filter_by(is_collective=True, crop_type=crop, status='open').first()
FirstOpenCollective(ls, crop) ==
    LET S == {i \in 1..Len(ls) : /\ ls[i].is_collective
                                 /\ ls[i].crop_type = crop
                                 /\ ls[i].status = "open"}
    IN  IF S = {} THEN 0 ELSE SetMin(S)

-----------------------------------------------------------------------------
(* get_or_create_user and send_sms.                                        *)

\* The provider: no client or no sender number configured; a client whose
\* messages.create returns; a client whose messages.create raises.
Providers == {"unconfigured", "ok", "raises"}

\* send_outcome without the try block around client.messages.create.
send_outcome_uncaught(provider) ==
    CASE provider = "unconfigured" -> "not_sent"
      [] provider = "ok" -> "sent"
      [] OTHER -> "raised"

\* How a send_sms call ends: the early return, the call of the provider, or the
\* except branch, each of which prints and returns; "raised" is an exception
\* that leaves send_sms
send_outcome(provider) ==
    CASE provider = "unconfigured" -> "not_sent"
      [] provider = "ok" -> "sent"
      [] OTHER -> "error_logged"

\* A send_sms call of the request raises into its caller.
SendRaises == send_outcome(twilio) = "raised"

\* send_sms(to, message): the call is recorded in the log of the request
send_sms(log, to, kind, lot_id, amount) == Append(log, Msg(to, kind, lot_id, amount))

\* The response of a request that ended with an exception no handler caught
ServerError == Reply("server_error", 500, <<>>)

\* get_or_create_user that stores the type and district of the call on the row
\* of an existing user.
get_or_create_user_updating(us, phone, utype, district, code) ==
    IF FindUser(us, phone) = 0
    THEN [users |-> Append(us, UserRow(phone, utype, district, code)),
          id    |-> Len(us) + 1,
          sent  |-> send_sms(<<>>, phone, "welcome", 0, 0),
          raised |-> SendRaises]
    ELSE [users |-> [us EXCEPT ![FindUser(us, phone)].user_type = utype,
                               ![FindUser(us, phone)].district = district],
          id |-> FindUser(us, phone), sent |-> <<>>, raised |-> FALSE]

\* get_or_create_user: the table after the call (the new user is committed
\* before the welcome message is sent), the user's id, the messages sent, and
\* whether the call ended with an exception of send_sms
get_or_create_user(us, phone, utype, district, code) ==
    IF FindUser(us, phone) = 0
    THEN [users |-> Append(us, UserRow(phone, utype, district, code)),
          id    |-> Len(us) + 1,
          sent  |-> send_sms(<<>>, phone, "welcome", 0, 0),
          raised |-> SendRaises]
    ELSE [users |-> us, id |-> FindUser(us, phone), sent |-> <<>>, raised |-> FALSE]

\* The codes a new user of this phone may be given; an existing user draws none.
\* The rows the tables hold: lots, bids, and the joins of the collective lots.
RECURSIVE Joins(_)
Joins(js) ==
    IF js = <<>> THEN 0
    ELSE (IF Len(Head(js)) > 1 THEN Len(Head(js)) - 1 ELSE 0) + Joins(Tail(js))

Rows == Len(lots) + Len(bids) + Joins(joined)

CodeChoices(phone) ==
    IF FindUser(users, phone) # 0 THEN {"unused"}
    ELSE Codes \ {users[i].login_code : i \in 1..Len(users)}


-----------------------------------------------------------------------------
(* The SMS webhook, sms_handler, one action per branch.                    *)

\* The well-formed commands.
ListBodies ==
    {<<"list", "wheat", "100">>, <<"list", "wheat", "100", "0">>,
     <<"list", "jute", "100">>, <<"LIST", "WHEAT", "100">>}

BidBodies ==
    {<<"bid", l, a>> : l \in {"1", "2"}, a \in {"-5", "0", "2300"}}

CollectiveBodies ==
    {<<"collective", "wheat", "50", "delhi">>}

OtherBodies == {<<"help">>}

\* The branch conditions of sms_handler on parts = body.split(' ')
IsList(parts) == parts[1] = "list" /\ Len(parts) >= 3
IsBid(parts) == parts[1] = "bid" /\ Len(parts) = 3
IsCollective(parts) == parts[1] = "collective" /\ Len(parts) >= 3

\* ListMinPrice that never reads the price token.
ListMinPriceMsp(parts) == MSP_PRICES(parts[2])

\* min_price = float(parts[3]) if len(parts) > 3 else MSP_PRICES.get(crop_type, None)
ListMinPrice(parts) ==
    IF Len(parts) > 3 THEN Some(Float(parts[4])) ELSE MSP_PRICES(parts[2])

\* The try block of LIST raises ValueError
ListRaises(parts) ==
    ~IsFloat(parts[3]) \/ (Len(parts) > 3 /\ ~IsFloat(parts[4]))

SmsList(from, body, code) ==
    LET parts == Parts(body)
        g == get_or_create_user(users, from, "farmer", None, code)
    IN  /\ IsList(parts)
        /\ emitted' = <<>>
        /\ UNCHANGED <<bids, pc, loc, twilio>>
        /\ IF ListRaises(parts)
           THEN /\ reply' = Reply("list_invalid", 200, <<>>)
                /\ sent' = <<>>
                /\ UNCHANGED <<users, lots, joined>>
           ELSE IF g.raised
           THEN /\ users' = g.users
                /\ sent' = g.sent
                /\ reply' = ServerError
                /\ UNCHANGED <<lots, joined>>
           ELSE /\ Rows < MaxRows
                /\ users' = g.users
                /\ lots' = Append(lots, LotRow(g.id, parts[2], Float(parts[3]),
                                               ListMinPrice(parts), FALSE, <<>>))
                /\ joined' = Append(joined, <<>>)
                /\ sent' = g.sent
                /\ reply' = Reply("listed", 200, <<Len(lots) + 1>>)

\* if lot.min_price and bid_amount < lot.min_price
BelowMinimum(lot, amount) == Truthy(lot.min_price) /\ amount < lot.min_price[1]

\* MspAlert without the comparison of the amount to the MSP.
MspAlertAnyAmount(log, us, lot, lot_id, amount) ==
    LET msp == MSP_PRICES(Lower(lot.crop_type))
    IN  IF Truthy(msp)
           /\ lot.farmer_id \in 1..Len(us)
           /\ us[lot.farmer_id].phone_number # ""
        THEN send_sms(log, us[lot.farmer_id].phone_number, "msp_alert", lot_id, amount)
        ELSE log

\* The MSP alert of an accepted bid: the send_sms calls it adds to log
MspAlert(log, us, lot, lot_id, amount) ==
    LET msp == MSP_PRICES(Lower(lot.crop_type))
    IN  IF Truthy(msp) /\ amount < msp[1]
           /\ lot.farmer_id \in 1..Len(us)
           /\ us[lot.farmer_id].phone_number # ""
        THEN send_sms(log, us[lot.farmer_id].phone_number, "msp_alert", lot_id, amount)
        ELSE log

\* BidRaises with the lot id parsed by float() instead of int().
BidRaisesFloatId(parts) == ~IsFloat(parts[2]) \/ ~IsFloat(parts[3])

\* The try block of BID raises ValueError
BidRaises(parts) == ~IsInt(parts[2]) \/ ~IsFloat(parts[3])

\* LotUnavailable without the test of the status.
LotMissing(ls, lot_id) == ~LotExists(ls, lot_id)

\* if not lot or lot.status != 'open'
LotUnavailable(ls, lot_id) == ~LotExists(ls, lot_id) \/ ls[lot_id].status # "open"

SmsBid(from, body, code) ==
    LET parts == Parts(body)
        lot_id == Int_(parts[2])
        amount == Float(parts[3])
        g == get_or_create_user(users, from, "buyer", None, code)
    IN  /\ IsBid(parts)
        /\ UNCHANGED <<lots, joined, pc, loc, twilio>>
        /\ IF BidRaises(parts)
           THEN /\ reply' = Reply("bid_invalid", 200, <<>>)
                /\ sent' = <<>>
                /\ emitted' = <<>>
                /\ UNCHANGED <<users, bids>>
           ELSE IF g.raised
           THEN /\ users' = g.users
                /\ sent' = g.sent
                /\ emitted' = <<>>
                /\ reply' = ServerError
                /\ UNCHANGED bids
           ELSE IF LotUnavailable(lots, lot_id)
           THEN /\ users' = g.users
                /\ sent' = g.sent
                /\ emitted' = <<>>
                /\ reply' = Reply("lot_unavailable", 200, <<>>)
                /\ UNCHANGED bids
           ELSE IF BelowMinimum(lots[lot_id], amount)
           THEN /\ users' = g.users
                /\ sent' = g.sent
                /\ emitted' = <<>>
                /\ reply' = Reply("bid_too_low", 200, <<>>)
                /\ UNCHANGED bids
           ELSE /\ Rows < MaxRows
                /\ users' = g.users
                /\ bids' = Append(bids, BidRow(lot_id, g.id, amount))
                /\ emitted' = <<Event("bid_update", lot_id, amount)>>
                /\ sent' = MspAlert(g.sent, g.users, lots[lot_id], lot_id, amount)
                /\ reply' = IF sent' # g.sent /\ SendRaises
                            THEN ServerError
                            ELSE Reply("bid_recorded", 200, <<lot_id, amount>>)


\* The try block of COLLECTIVE raises ValueError, or IndexError at parts[3]
CollectiveRaises(parts) == ~IsFloat(parts[3]) \/ Len(parts) < 4

\* JoinWrite with = for += on the quantity.
JoinWriteOverwrite(lot, members, quantity_kg, uid, quantity) ==
    [lot EXCEPT !.members = Append(members, uid), !.quantity_kg = quantity]

\* JoinWrite that appends and increments in the database, on the row as it is now.
JoinWriteCurrent(lot, members, quantity_kg, uid, quantity) ==
    [lot EXCEPT !.members = Append(lot.members, uid),
                !.quantity_kg = lot.quantity_kg + quantity]

\* The join: members and quantity_kg as read from the row, the appended list and
\* the incremented quantity written back to it
JoinWrite(lot, members, quantity_kg, uid, quantity) ==
    [lot EXCEPT !.members = Append(members, uid),
                !.quantity_kg = quantity_kg + quantity]

\* Lot(farmer_id=..., crop_type=..., quantity_kg=..., is_collective=True, members=...)
NewCollectiveLot(uid, crop, quantity) ==
    LotRow(uid, crop, quantity, None, TRUE, <<uid>>)

SmsCollective(from, body, code) ==
    LET parts == Parts(body)
        quantity == Float(parts[3])
        g == get_or_create_user(users, from, "farmer", Some(parts[4]), code)
        cl == FirstOpenCollective(lots, parts[2])
    IN  /\ IsCollective(parts)
        /\ emitted' = <<>>
        /\ UNCHANGED <<bids, pc, loc, twilio>>
        /\ IF CollectiveRaises(parts)
           THEN /\ reply' = Reply("collective_invalid", 200, <<>>)
                /\ sent' = <<>>
                /\ UNCHANGED <<users, lots, joined>>
           ELSE IF g.raised
           THEN /\ users' = g.users
                /\ sent' = g.sent
                /\ reply' = ServerError
                /\ UNCHANGED <<lots, joined>>
           ELSE IF cl # 0
           THEN /\ Rows < MaxRows
                /\ users' = g.users
                /\ sent' = g.sent
                /\ lots' = [lots EXCEPT ![cl] = JoinWrite(@, @.members, @.quantity_kg,
                                                          g.id, quantity)]
                /\ joined' = [joined EXCEPT ![cl] = Append(@, <<g.id, quantity>>)]
                /\ reply' = Reply("collective_joined", 200, <<cl>>)
           ELSE /\ Rows < MaxRows
                /\ users' = g.users
                /\ sent' = g.sent
                /\ lots' = Append(lots, NewCollectiveLot(g.id, parts[2], quantity))
                /\ joined' = Append(joined, << <<g.id, quantity>> >>)
                /\ reply' = Reply("collective_created", 200, <<Len(lots) + 1>>)

\* The else branch: the generic help text
SmsHelp(from, body) ==
    LET parts == Parts(body)
    IN  /\ ~IsList(parts) /\ ~IsBid(parts) /\ ~IsCollective(parts)
        /\ reply' = Reply("help", 200, <<>>)
        /\ sent' = <<>>
        /\ emitted' = <<>>
        /\ UNCHANGED <<users, lots, bids, joined, pc, loc, twilio>>

-----------------------------------------------------------------------------
(* The dashboard endpoints.                                                *)

LotIds == 1..(Len(lots) + 1)

\* The open lots, in id order
RECURSIVE OpenLots(_, _)
OpenLots(ls, i) ==
    IF i > Len(ls) THEN <<>>
    ELSE (IF ls[i].status = "open" THEN <<i>> ELSE <<>>) \o OpenLots(ls, i + 1)

\* GET /api/v1/lots
get_all_lots ==
    LET open == OpenLots(lots, 1)
    IN  /\ reply' = Reply("lots", 200,
                          [k \in 1..Len(open) |->
                              [id |-> open[k],
                               crop_type |-> lots[open[k]].crop_type,
                               quantity_kg |-> lots[open[k]].quantity_kg,
                               min_price |-> lots[open[k]].min_price,
                               highest_bid |-> HighestBid(bids, open[k])]])
        /\ sent' = <<>>
        /\ emitted' = <<>>
        /\ UNCHANGED <<users, lots, bids, joined, pc, loc, twilio>>

\* GET /api/v1/generate_contract/<lot_id>
generate_contract(lot_id) ==
    LET highest_bid == HighestBid(bids, lot_id)
        buyer_bid == FirstBidAt(bids, lot_id, highest_bid)
    IN  /\ sent' = <<>>
        /\ emitted' = <<>>
        /\ UNCHANGED <<users, lots, bids, joined, pc, loc, twilio>>
        /\ IF ~LotExists(lots, lot_id)
           THEN reply' = Reply("not_found", 404, <<>>)
           ELSE IF buyer_bid = 0
           THEN reply' = Reply("no_bids", 404, <<>>)
           ELSE reply' = Reply("contract", 200,
                    <<[farmer |-> users[lots[lot_id].farmer_id].phone_number,
                       buyer |-> users[bids[buyer_bid].bidder_id].phone_number,
                       crop_type |-> lots[lot_id].crop_type,
                       quantity_kg |-> lots[lot_id].quantity_kg,
                       rate |-> highest_bid,
                       total |-> highest_bid * lots[lot_id].quantity_kg]>>)

\* NothingToConfirm that tests for a negative amount.
NothingToConfirmNegative(highest_bid) == highest_bid < 0

\* if not highest_bid: the 400 of confirm_sale
NothingToConfirm(highest_bid) == highest_bid = 0

\* The lines of confirm_sale after the commit.  Bid declares no bidder attribute
\* and Lot no farmer attribute (no relationship is declared on either model), so
\* the first of them raises AttributeError: nothing is sent and the request ends
\* with a server error.
NotifySale(us, ls, bs, lot_id, highest_bid) ==
    [sent |-> <<>>, reply |-> ServerError]

\* MarkSold that writes the status closed.
MarkClosed(ls, lot_id) == [ls EXCEPT ![lot_id].status = "closed"]

\* lot.status = 'sold'; db.session.commit()
MarkSold(ls, lot_id) == [ls EXCEPT ![lot_id].status = "sold"]

\* POST /api/v1/confirm_sale/<lot_id>
confirm_sale(lot_id) ==
    LET highest_bid == HighestBid(bids, lot_id)
        n == NotifySale(users, MarkSold(lots, lot_id), bids, lot_id, highest_bid)
    IN  /\ emitted' = <<>>
        /\ UNCHANGED <<users, bids, joined, pc, loc, twilio>>
        /\ IF ~LotExists(lots, lot_id)
           THEN /\ reply' = Reply("not_found", 404, <<>>)
                /\ sent' = <<>>
                /\ UNCHANGED lots
           ELSE IF NothingToConfirm(highest_bid)
           THEN /\ reply' = Reply("no_bids", 400, <<>>)
                /\ sent' = <<>>
                /\ UNCHANGED lots
           ELSE /\ lots' = MarkSold(lots, lot_id)
                /\ sent' = n.sent
                /\ reply' = n.reply

\* The pairs a login request may carry: a field of the JSON body may be missing.
LoginPhones == {None} \cup {Some(p) : p \in Phones \cup {"+919"}}
LoginCodes == {None} \cup {Some(c) : c \in Codes}

\* FindLogin that filters by the phone number alone.
FindLoginByPhone(us, phone_number, login_code) ==
    LET hits == {i \in 1..Len(us) : Some(us[i].phone_number) = phone_number}
    IN  IF hits = {} THEN 0 ELSE SetMin(hits)

\* User.query.filter_by(phone_number=..., login_code=...).first(): the id, or 0
FindLogin(us, phone_number, login_code) ==
    LET hits == {i \in 1..Len(us) : /\ Some(us[i].phone_number) = phone_number
                                    /\ Some(us[i].login_code) = login_code}
    IN  IF hits = {} THEN 0 ELSE SetMin(hits)

\* POST /api/v1/login
login(phone_number, login_code) ==
    LET user == FindLogin(users, phone_number, login_code)
    IN  /\ sent' = <<>>
        /\ emitted' = <<>>
        /\ UNCHANGED <<users, lots, bids, joined, pc, loc, twilio>>
        /\ IF user # 0
           THEN reply' = Reply("login_ok", 200, <<user, users[user].user_type>>)
           ELSE reply' = Reply("invalid_credentials", 401, <<>>)

-----------------------------------------------------------------------------
(* The atomic specification: each request runs to completion in one step.  *)

Workers == {1, 2}

Idle == [uid |-> 0, crop |-> "", quantity |-> 0, lot |-> 0, members |-> <<>>,
         quantity_kg |-> 0]

\* The state after db.create_all(): empty tables, nothing handled yet.
Init ==
    /\ users = <<>>
    /\ lots = <<>>
    /\ bids = <<>>
    /\ joined = <<>>
    /\ reply = Reply("none", 0, <<>>)
    /\ sent = <<>>
    /\ emitted = <<>>
    /\ pc = [w \in Workers |-> "idle"]
    /\ loc = [w \in Workers |-> Idle]
    /\ twilio = "unconfigured"

Next ==
    \/ \E from \in Phones, body \in ListBodies : \E code \in CodeChoices(from) :
          SmsList(from, body, code)
    \/ \E from \in Bidders, body \in BidBodies : \E code \in CodeChoices(from) :
          SmsBid(from, body, code)
    \/ \E from \in Phones, body \in CollectiveBodies : \E code \in CodeChoices(from) :
          SmsCollective(from, body, code)
    \/ \E from \in Phones, body \in OtherBodies : SmsHelp(from, body)
    \/ \E lot_id \in LotIds : confirm_sale(lot_id)

Spec == Init /\ [][Next]_vars

-----------------------------------------------------------------------------
(* Collective lots with two contribution sizes.                            *)

CollectiveBodies2 ==
    {<<"collective", "wheat", q, "delhi">> : q \in {"50", "100"}}

NextCollective ==
    \/ \E from \in Phones, body \in CollectiveBodies2 : \E code \in CodeChoices(from) :
          SmsCollective(from, body, code)
    \/ \E from \in Phones : \E code \in CodeChoices(from) :
          SmsList(from, <<"list", "wheat", "100">>, code)
    \/ \E from \in Bidders, body \in {<<"bid", "1", "2300">>, <<"bid", "2", "2300">>} :
          \E code \in CodeChoices(from) : SmsBid(from, body, code)
    \/ \E lot_id \in LotIds : confirm_sale(lot_id)

SpecCollective == Init /\ [][NextCollective]_vars

-----------------------------------------------------------------------------
(* The web portal: the dashboard endpoints and login, beside the commands.  *)

PortalBidBodies == {<<"bid", l, a>> : l \in {"1", "2"}, a \in {"0", "2300"}}
MalformedBid == <<"bid", "1", "abc">>

NextPortal ==
    \/ \E from \in Phones : \E code \in CodeChoices(from) :
          SmsList(from, <<"list", "wheat", "100">>, code)
    \/ \E from \in Bidders, body \in PortalBidBodies \cup {MalformedBid} :
          \E code \in CodeChoices(from) : SmsBid(from, body, code)
    \/ \E from \in Phones, body \in CollectiveBodies : \E code \in CodeChoices(from) :
          SmsCollective(from, body, code)
    \/ \E lot_id \in LotIds : confirm_sale(lot_id)
    \/ \E lot_id \in LotIds : generate_contract(lot_id)
    \/ get_all_lots
    \/ \E phone_number \in LoginPhones, login_code \in LoginCodes :
          login(phone_number, login_code)

SpecPortal == Init /\ [][NextPortal]_vars

-----------------------------------------------------------------------------
(* The same requests under each provider.                                  *)

InitGateway ==
    /\ users = <<>>
    /\ lots = <<>>
    /\ bids = <<>>
    /\ joined = <<>>
    /\ reply = Reply("none", 0, <<>>)
    /\ sent = <<>>
    /\ emitted = <<>>
    /\ pc = [w \in Workers |-> "idle"]
    /\ loc = [w \in Workers |-> Idle]
    /\ twilio \in Providers

NextGateway ==
    \/ \E from \in Phones : \E code \in CodeChoices(from) :
          SmsList(from, <<"list", "wheat", "100">>, code)
    \/ \E from \in Bidders, body \in PortalBidBodies : \E code \in CodeChoices(from) :
          SmsBid(from, body, code)
    \/ \E from \in Phones, body \in CollectiveBodies : \E code \in CodeChoices(from) :
          SmsCollective(from, body, code)
    \/ \E lot_id \in LotIds : confirm_sale(lot_id)

SpecGateway == InitGateway /\ [][NextGateway]_vars

-----------------------------------------------------------------------------
(* Collective lots of two crops, asked for from two districts.             *)

CropBodies ==
    {<<"collective", c, "50", d>> : c \in {"wheat", "rice"}, d \in {"delhi", "pune"}}

NextCrops ==
    \/ \E from \in Phones, body \in CropBodies : \E code \in CodeChoices(from) :
          SmsCollective(from, body, code)
    \/ \E from \in Phones : \E code \in CodeChoices(from) :
          SmsList(from, <<"list", "wheat", "100">>, code)
    \/ \E from \in Bidders, body \in {<<"bid", "1", "2300">>, <<"bid", "2", "2300">>} :
          \E code \in CodeChoices(from) : SmsBid(from, body, code)
    \/ \E lot_id \in LotIds : confirm_sale(lot_id)

SpecCrops == Init /\ [][NextCrops]_vars

-----------------------------------------------------------------------------
(* Message formats: every branch of sms_handler is offered every body.     *)

MalformedBodies ==
    {<<"">>, <<"help">>, <<"list">>, <<"list", "wheat">>, <<"bid">>, <<"bid", "1">>,
     <<"bid", "1", "2300", "now">>, <<"collective">>, <<"collective", "wheat">>,
     <<"list", "wheat", "abc">>, <<"list", "wheat", "100", "abc">>,
     <<"list", "wheat", "abc", "2000">>, <<"list", "", "wheat", "100">>,
     <<"bid", "abc", "2300">>, <<"bid", "1", "abc">>, <<"bid", "1e0", "2300">>,
     <<"collective", "wheat", "abc", "delhi">>, <<"collective", "wheat", "50">>,
     <<"collective", "wheat", "abc">>, <<"BID", "1">>, <<"LIST", "WHEAT", "abc">>}

FormatBodies ==
    MalformedBodies
    \cup {<<"LIST", "WHEAT", "100">>, <<"list", "wheat", "100", "2000", "extra">>,
          <<"BID", "1", "2300">>, <<"bid", "1", "1e0">>,
          <<"COLLECTIVE", "WHEAT", "50", "DELHI">>}

\* sms_handler on one message: the branch its first token and token count select
sms_handler(from, body, code) ==
    \/ SmsList(from, body, code)
    \/ SmsBid(from, body, code)
    \/ SmsCollective(from, body, code)
    \/ SmsHelp(from, body)

NextFormat ==
    \E from \in Bidders, body \in FormatBodies : \E code \in CodeChoices(from) :
        sms_handler(from, body, code)

SpecFormat == Init /\ [][NextFormat]_vars

-----------------------------------------------------------------------------
(* Concurrent COLLECTIVE requests.  Each request is two steps: up to the   *)
(* query for the open collective lot (whose row it keeps in its session),  *)
(* and from there to the commit.  Nothing locks the row in between.        *)

InFlight == Cardinality({w \in Workers : pc[w] = "queried"})

\* Up to the query: the parse, get_or_create_user (with its own commit), the query
CollectiveQuery(w, from, body, code) ==
    LET parts == Parts(body)
        g == get_or_create_user(users, from, "farmer", Some(parts[4]), code)
        cl == FirstOpenCollective(lots, parts[2])
    IN  /\ pc[w] = "idle"
        /\ IsCollective(parts) /\ ~CollectiveRaises(parts)
        /\ users' = g.users
        /\ sent' = g.sent
        /\ UNCHANGED <<lots, bids, joined, emitted, twilio>>
        /\ IF g.raised
           THEN /\ reply' = ServerError
                /\ UNCHANGED <<pc, loc>>
           ELSE /\ Rows + InFlight < MaxRows
                /\ loc' = [loc EXCEPT ![w] =
                      [uid |-> g.id, crop |-> parts[2], quantity |-> Float(parts[3]),
                       lot |-> cl,
                       members |-> IF cl = 0 THEN <<>> ELSE lots[cl].members,
                       quantity_kg |-> IF cl = 0 THEN 0 ELSE lots[cl].quantity_kg]]
                /\ pc' = [pc EXCEPT ![w] = "queried"]
                /\ UNCHANGED reply

\* From the query on: the join or the creation, the commit, the reply
CollectiveCommit(w) ==
    LET l == loc[w]
    IN  /\ pc[w] = "queried"
        /\ IF l.lot # 0
           THEN /\ lots' = [lots EXCEPT ![l.lot] = JoinWrite(@, l.members, l.quantity_kg,
                                                             l.uid, l.quantity)]
                /\ joined' = [joined EXCEPT ![l.lot] = Append(@, <<l.uid, l.quantity>>)]
                /\ reply' = Reply("collective_joined", 200, <<l.lot>>)
           ELSE /\ lots' = Append(lots, NewCollectiveLot(l.uid, l.crop, l.quantity))
                /\ joined' = Append(joined, << <<l.uid, l.quantity>> >>)
                /\ reply' = Reply("collective_created", 200, <<Len(lots) + 1>>)
        /\ pc' = [pc EXCEPT ![w] = "done"]
        /\ sent' = <<>>
        /\ UNCHANGED <<users, bids, emitted, loc, twilio>>

\* The response is returned; the worker is free for the next request.
CollectiveReturn(w) ==
    /\ pc[w] = "done"
    /\ pc' = [pc EXCEPT ![w] = "idle"]
    /\ loc' = [loc EXCEPT ![w] = Idle]
    /\ UNCHANGED <<users, lots, bids, joined, reply, sent, emitted, twilio>>

NextRace ==
    \/ \E w \in Workers, from \in Phones, body \in CollectiveBodies2 :
          \E code \in CodeChoices(from) : CollectiveQuery(w, from, body, code)
    \/ \E w \in Workers : CollectiveCommit(w)
    \/ \E w \in Workers : CollectiveReturn(w)

SpecRace == Init /\ [][NextRace]_vars

-----------------------------------------------------------------------------
(* Properties.                                                             *)

\* The messages of one kind among the send_sms calls of a request
RECURSIVE OfKind(_, _)
OfKind(log, kind) ==
    IF log = <<>> THEN <<>>
    ELSE (IF Head(log).kind = kind THEN <<Head(log)>> ELSE <<>>)
         \o OfKind(Tail(log), kind)

\* The step persisted a bid: the Bid table grew by one row.
BidAccepted == Len(bids') = Len(bids) + 1

\* C1: every persisted bid on a lot whose minimum price is set (not null) has an
\* amount of at least that minimum price: a BID below the minimum of its lot is
\* never persisted.
C1_BidsMeetMinimum ==
    \A i \in 1..Len(bids) :
        lots[bids[i].lot_id].min_price # None
            => bids[i].bid_amount >= lots[bids[i].lot_id].min_price[1]

\* C2: a BID rejected because the lot does not exist, is not open, or the amount
\* is below the minimum price changes neither the User, the Lot nor the Bid table.
C2_RejectedBidMutatesNothing ==
    [][reply'.kind \in {"lot_unavailable", "bid_too_low"}
          => UNCHANGED <<users, lots, bids>>]_vars

\* C3 as stated: an accepted bid sends exactly one MSP alert, to the phone number
\* of the lot's farmer, if its amount is below the MSP of the lot's crop, and none
\* otherwise; the bid is persisted either way.
C3_AlertIffBelowMsp ==
    [][BidAccepted =>
         LET b == bids'[Len(bids')]
             lot == lots[b.lot_id]
             msp == MSP_PRICES(lot.crop_type)
             alerts == OfKind(sent', "msp_alert")
         IN  /\ bids' = Append(bids, b)
             /\ IF msp # None /\ b.bid_amount < msp[1]
                THEN alerts = <<Msg(users'[lot.farmer_id].phone_number, "msp_alert",
                                    b.lot_id, b.bid_amount)>>
                ELSE alerts = <<>>]_vars

\* C3, amended: an accepted bid sends exactly one MSP alert, to the phone number
\* of the lot's farmer, if its amount is below the MSP of the lot's crop and the
\* farmer's phone number is not empty, and none otherwise; the bid is persisted
\* either way.
C3_AlertIffBelowMspAndPhone ==
    [][BidAccepted =>
         LET b == bids'[Len(bids')]
             lot == lots[b.lot_id]
             msp == MSP_PRICES(lot.crop_type)
             phone == users'[lot.farmer_id].phone_number
             alerts == OfKind(sent', "msp_alert")
         IN  /\ bids' = Append(bids, b)
             /\ IF msp # None /\ b.bid_amount < msp[1] /\ phone # ""
                THEN alerts = <<Msg(phone, "msp_alert", b.lot_id, b.bid_amount)>>
                ELSE alerts = <<>>]_vars

\* A bid below the MSP was just accepted and its alert sent to the farmer.
C3_Witness ==
    /\ reply.kind = "bid_recorded"
    /\ bids # <<>>
    /\ bids[Len(bids)].bid_amount < MSP_WHEAT
    /\ OfKind(sent, "msp_alert") # <<>>

\* The user ids and the quantities of the successful COLLECTIVE requests of a lot
Contributors(js) == [i \in 1..Len(js) |-> js[i][1]]
Contributions(js) == [i \in 1..Len(js) |-> js[i][2]]

\* A sequence is another with rows appended.
IsPrefix(s, t) == Len(s) <= Len(t) /\ \A i \in 1..Len(s) : s[i] = t[i]

\* C4: with every request atomic, a collective lot's quantity is the sum of the
\* quantities of the COLLECTIVE requests that created and joined it, and its
\* membership list holds their user ids in arrival order; the list only grows by
\* appending.
C4_JoinsAreAdditive ==
    /\ [](\A l \in 1..Len(lots) :
            lots[l].is_collective =>
               /\ lots[l].quantity_kg = SeqSum(Contributions(joined[l]))
               /\ lots[l].members = Contributors(joined[l])
               /\ Len(lots[l].members) = Len(joined[l]))
    /\ [][\A l \in 1..Len(lots) : IsPrefix(lots[l].members, lots'[l].members)]_vars

\* A collective lot after three contributions of two sizes.
C4_Witness ==
    \E l \in 1..Len(lots) :
        /\ lots[l].is_collective
        /\ Len(lots[l].members) = 3
        /\ lots[l].quantity_kg = 250

\* C5: under concurrent requests, two joins that read the same row of a lot
\* before either commits leave the lot with one contribution only: once both
\* have replied, the membership list is the list they read plus one user id and
\* the quantity is the quantity they read plus one of the two quantities.
C5_StaleJoinLosesUpdate ==
    \A v, w \in Workers :
        (/\ v # w
         /\ pc[v] = "done" /\ pc[w] = "done"
         /\ loc[v].lot # 0 /\ loc[v].lot = loc[w].lot
         /\ loc[v].members = loc[w].members
         /\ loc[v].quantity_kg = loc[w].quantity_kg)
        => LET lot == lots[loc[v].lot]
           IN  /\ Len(lot.members) = Len(loc[v].members) + 1
               /\ lot.quantity_kg \in {loc[v].quantity_kg + loc[v].quantity,
                                       loc[w].quantity_kg + loc[w].quantity}
               /\ lot.quantity_kg < loc[v].quantity_kg + loc[v].quantity + loc[w].quantity

\* Both requests have replied success for one lot, and the lot holds less than
\* was contributed to it.
C5_LostUpdate ==
    /\ \A w \in Workers : pc[w] = "done" /\ loc[w].lot # 0
    /\ \E l \in 1..Len(lots) :
          /\ \A w \in Workers : loc[w].lot = l
          /\ reply = Reply("collective_joined", 200, <<l>>)
          /\ \/ lots[l].quantity_kg < SeqSum(Contributions(joined[l]))
             \/ Len(lots[l].members) < Len(joined[l])

\* C6: confirm_sale on an existing lot without bids answers 400 and changes
\* nothing: the lot stays open, no message is sent, no event is emitted.
C6_ConfirmWithoutBids ==
    [][\A lot_id \in LotIds :
          (/\ confirm_sale(lot_id)
           /\ LotExists(lots, lot_id)
           /\ \A i \in 1..Len(bids) : bids[i].lot_id # lot_id)
          => /\ reply' = Reply("no_bids", 400, <<>>)
             /\ lots[lot_id].status = "open"
             /\ lots' = lots
             /\ sent' = <<>>
             /\ emitted' = <<>>
             /\ UNCHANGED <<users, bids>>]_vars

\* confirm_sale has just answered 400 while some lot has no bids.
C6_Witness ==
    /\ reply = Reply("no_bids", 400, <<>>)
    /\ \E l \in 1..Len(lots) :
          lots[l].status = "open" /\ \A i \in 1..Len(bids) : bids[i].lot_id # l

\* C7: confirm_sale on a lot with at least one bid sets the lot to sold and sends
\* exactly two messages: one to the lot's farmer and one to the bidder of a bid
\* whose amount is the highest of the lot.
C7_ConfirmWithBids ==
    [][\A lot_id \in LotIds :
          (/\ confirm_sale(lot_id)
           /\ LotExists(lots, lot_id)
           /\ \E i \in 1..Len(bids) : bids[i].lot_id = lot_id)
          => /\ lots'[lot_id].status = "sold"
             /\ Len(sent') = 2
             /\ \E f, b \in 1..2 :
                  /\ f # b
                  /\ sent'[f].to = users[lots[lot_id].farmer_id].phone_number
                  /\ \E i \in 1..Len(bids) :
                       /\ bids[i].lot_id = lot_id
                       /\ \A j \in 1..Len(bids) :
                            bids[j].lot_id = lot_id
                               => bids[j].bid_amount <= bids[i].bid_amount
                       /\ sent'[b].to = users[bids[i].bidder_id].phone_number]_vars

\* C8: the highest bid of a lot is 0 when no bid names the lot, and otherwise the
\* greatest amount among the bids that name it; bids of other lots do not count.
C8_HighestBid ==
    \A lot_id \in 1..(Len(lots) + 1) :
        LET mine == {i \in 1..Len(bids) : bids[i].lot_id = lot_id}
            h == HighestBid(bids, lot_id)
        IN  IF mine = {} THEN h = 0
            ELSE /\ \E i \in mine : bids[i].bid_amount = h
                 /\ \A i \in mine : bids[i].bid_amount <= h

\* A lot with two bids of different amounts, the higher of them its highest bid.
C8_Witness ==
    \E l \in 1..Len(lots) : \E i, j \in 1..Len(bids) :
        /\ bids[i].lot_id = l /\ bids[j].lot_id = l
        /\ bids[i].bid_amount < bids[j].bid_amount
        /\ HighestBid(bids, l) = bids[j].bid_amount

\* C9: a valid LIST command adds exactly one lot: open, not collective, without
\* members, owned by the sender, of the quantity given, and with the price given
\* as its minimum price, or else the MSP of the crop, or else none; the lots and
\* the bids there were stay as they are.
C9_ListCreatesLot ==
    [][\A from \in Phones, body \in ListBodies : \A code \in CodeChoices(from) :
          SmsList(from, body, code)
          => LET new == lots'[Len(lots')]
                 crop == Lower(body[2])
             IN  /\ lots' = Append(lots, new)
                 /\ bids' = bids
                 /\ new.status = "open"
                 /\ ~new.is_collective
                 /\ new.members = <<>>
                 /\ users'[new.farmer_id].phone_number = from
                 /\ new.crop_type = crop
                 /\ new.quantity_kg = Float(body[3])
                 /\ new.min_price =
                       IF Len(body) > 3 THEN Some(Float(body[4]))
                       ELSE IF crop = "wheat" THEN Some(MSP_WHEAT)
                       ELSE IF crop = "rice" THEN Some(MSP_RICE)
                       ELSE IF crop = "maize" THEN Some(MSP_MAIZE)
                       ELSE None]_vars

\* A lot was just listed with a price given, after one listed at the MSP.
C9_Witness ==
    /\ reply.kind = "listed"
    /\ Len(lots) >= 2
    /\ lots[Len(lots)].min_price = Some(0)
    /\ lots[1].min_price = Some(MSP_WHEAT)

\* What C10 calls a command with missing or unparsable arguments.
ArgsMissingOrBad(parts) ==
    CASE parts[1] = "list" ->
            \/ Len(parts) < 3
            \/ ~IsFloat(parts[3])
            \/ (Len(parts) > 3 /\ ~IsFloat(parts[4]))
      [] parts[1] = "bid" ->
            \/ Len(parts) < 3
            \/ ~IsInt(parts[2])
            \/ ~IsFloat(parts[3])
      [] parts[1] = "collective" ->
            \/ Len(parts) < 4
            \/ ~IsFloat(parts[3])
      [] OTHER -> FALSE

\* The token count the command of the first token asks for.
CountFits(parts) ==
    CASE parts[1] = "list" -> Len(parts) >= 3
      [] parts[1] = "bid" -> Len(parts) = 3
      [] parts[1] = "collective" -> Len(parts) >= 3
      [] OTHER -> FALSE

InvalidReplyOf(parts) == Reply(parts[1] \o "_invalid", 200, <<>>)

\* C10 as stated: a message whose first token is LIST, BID or COLLECTIVE and whose
\* arguments are missing or do not parse gets that command's invalid-format reply
\* and changes no table; the help reply is given only when the first token is not
\* a command.
C10_BadArgumentsGetFormatError ==
    [][\A from \in Bidders, body \in FormatBodies : \A code \in CodeChoices(from) :
          sms_handler(from, body, code)
          => LET parts == [i \in 1..Len(body) |-> Lower(body[i])]
             IN  /\ ArgsMissingOrBad(parts)
                    => /\ reply' = InvalidReplyOf(parts)
                       /\ UNCHANGED <<users, lots, bids>>
                 /\ reply'.kind = "help"
                    => parts[1] \notin {"list", "bid", "collective"}]_vars

\* C10, amended: a message whose first token is LIST, BID or COLLECTIVE and whose
\* token count fits the command (at least 3 for LIST and COLLECTIVE, exactly 3 for
\* BID) but whose arguments are missing or do not parse gets that command's
\* invalid-format reply; the help reply is given exactly when the first token is
\* not a command or the token count does not fit it; neither changes a table.
C10_FormatErrorOrHelp ==
    [][\A from \in Bidders, body \in FormatBodies : \A code \in CodeChoices(from) :
          sms_handler(from, body, code)
          => LET parts == [i \in 1..Len(body) |-> Lower(body[i])]
             IN  /\ (CountFits(parts) /\ ArgsMissingOrBad(parts))
                    => /\ reply' = InvalidReplyOf(parts)
                       /\ UNCHANGED <<users, lots, bids>>
                 /\ ~CountFits(parts)
                    => /\ reply' = Reply("help", 200, <<>>)
                       /\ UNCHANGED <<users, lots, bids>>
                 /\ reply'.kind = "help" => ~CountFits(parts)
                 /\ reply'.kind \in {"list_invalid", "bid_invalid", "collective_invalid"}
                    => sent' = <<>> /\ emitted' = <<>>]_vars

\* A COLLECTIVE command was just answered with its invalid-format reply, after a
\* lot was listed.
C10_Witness ==
    /\ reply = Reply("collective_invalid", 200, <<>>)
    /\ lots # <<>>

\* C11: a lot created without an explicit price (by LIST or by COLLECTIVE) whose
\* crop has an MSP has that MSP as its minimum price, and no bid below the MSP is
\* ever accepted on it.  A collective lot never has an explicit price.
C11_MinPriceDefaultsToMsp ==
    \A l \in 1..Len(lots) :
        LET msp == MSP_PRICES(lots[l].crop_type)
        IN  (msp # None /\ (lots[l].is_collective \/ lots[l].min_price = msp))
            => /\ lots[l].min_price = msp
               /\ \A i \in 1..Len(bids) :
                     bids[i].lot_id = l => bids[i].bid_amount >= msp[1]

\* C12: get_or_create_user is idempotent on existing users: no two users share a
\* phone number; a request sends a welcome message exactly when it creates a
\* user, one message, to that user's phone number; and the row of an existing
\* user (type, district, login code) is never changed by a later request, whatever
\* type or district that request supplies.
C12_GetOrCreateUserIdempotent ==
    /\ [](\A i, j \in 1..Len(users) :
            users[i].phone_number = users[j].phone_number => i = j)
    /\ [][/\ IsPrefix(users, users')
          /\ Len(users') <= Len(users) + 1
          /\ OfKind(sent', "welcome") =
                IF Len(users') > Len(users)
                THEN <<Msg(users'[Len(users')].phone_number, "welcome", 0, 0)>>
                ELSE <<>>]_vars

\* A farmer created by LIST, without district, has since sent COLLECTIVE with a
\* district and BID: they are a member of a collective lot and the bidder of a
\* bid, and their row is as LIST created it.
C12_Witness ==
    \E u \in 1..Len(users) :
        /\ users[u].user_type = "farmer"
        /\ users[u].district = None
        /\ \E l \in 1..Len(lots) :
              lots[l].is_collective /\ \E m \in 1..Len(lots[l].members) :
                                          lots[l].members[m] = u
        /\ \E i \in 1..Len(bids) : bids[i].bidder_id = u

\* C13: the status of a lot only moves from open to sold: every lot is open or
\* sold, no request removes or reorders a lot, and a sold lot stays sold under
\* LIST, BID, COLLECTIVE, confirm_sale, generate_contract and login.
C13_StatusOpenThenSold ==
    /\ [](\A l \in 1..Len(lots) : lots[l].status \in {"open", "sold"})
    /\ [][/\ Len(lots') >= Len(lots)
          /\ \A l \in 1..Len(lots) :
                /\ lots'[l].farmer_id = lots[l].farmer_id
                /\ lots'[l].crop_type = lots[l].crop_type
                /\ lots[l].status = "sold" => lots'[l].status = "sold"]_vars

\* A sold lot has since been asked for its contract.
C13_Witness ==
    /\ reply.kind = "contract"
    /\ \E l \in 1..Len(lots) : lots[l].status = "sold"

\* The users a request of this sender adds: one if the phone number is new.
NewUsers(from) == IF FindUser(users, from) = 0 THEN 1 ELSE 0

\* C14: send_sms never propagates a failure: whether the provider is not
\* configured, succeeds or raises, a request that sends a message ends as the
\* state before it and its input alone determine: a valid LIST creates the user
\* and the lot and replies with the lot id, a valid COLLECTIVE creates the user
\* and creates or joins a lot, a BID creates the user and is judged on the lot,
\* an accepted bid is persisted, emitted and confirmed; no request that called
\* send_sms ends with a server error.
C14_SendNeverPropagates ==
    [][/\ \A from \in Phones : \A code \in CodeChoices(from) :
             SmsList(from, <<"list", "wheat", "100">>, code)
             => /\ reply' = Reply("listed", 200, <<Len(lots) + 1>>)
                /\ Len(lots') = Len(lots) + 1
                /\ Len(users') = Len(users) + NewUsers(from)
                /\ Len(OfKind(sent', "welcome")) = NewUsers(from)
       /\ \A from \in Phones, body \in CollectiveBodies : \A code \in CodeChoices(from) :
             SmsCollective(from, body, code)
             => /\ reply'.kind \in {"collective_joined", "collective_created"}
                /\ lots' # lots
                /\ Len(users') = Len(users) + NewUsers(from)
                /\ Len(OfKind(sent', "welcome")) = NewUsers(from)
       /\ \A from \in Bidders, body \in PortalBidBodies : \A code \in CodeChoices(from) :
             SmsBid(from, body, code)
             => /\ reply'.kind \in {"lot_unavailable", "bid_too_low", "bid_recorded"}
                /\ reply'.kind = "bid_recorded" <=> BidAccepted
                /\ BidAccepted => emitted' # <<>>
                /\ Len(users') = Len(users) + NewUsers(from)
                /\ Len(OfKind(sent', "welcome")) = NewUsers(from)
       /\ reply' = ServerError => sent' = <<>>]_vars

\* Under a provider that raises, a bid below the MSP was accepted and confirmed,
\* and its alert handed to send_sms.
C14_Witness ==
    /\ twilio = "raises"
    /\ reply.kind = "bid_recorded"
    /\ OfKind(sent, "msp_alert") # <<>>

\* The bids that name a lot, and the greatest amount among them.
BidsNaming(lot_id) == {i \in 1..Len(bids) : bids[i].lot_id = lot_id}
GreatestAmount(lot_id) ==
    CHOOSE a \in {bids[i].bid_amount : i \in BidsNaming(lot_id)} :
        \A i \in BidsNaming(lot_id) : bids[i].bid_amount <= a

\* The contract part of C15: generate_contract on an existing lot answers 404
\* exactly when no bid names the lot; otherwise it answers with a contract whose
\* rate is the greatest amount bid on the lot, whose buyer is the bidder of a bid
\* of that amount on the lot, and whose total is the rate times the quantity of
\* the lot as it is now; it changes no table.
ContractReflectsState(lot_id) ==
    /\ UNCHANGED <<users, lots, bids>>
    /\ sent' = <<>> /\ emitted' = <<>>
    /\ IF BidsNaming(lot_id) = {}
       THEN reply'.status = 404
       ELSE /\ reply'.status = 200
            /\ LET c == reply'.data[1]
               IN  /\ c.rate = GreatestAmount(lot_id)
                   /\ c.quantity_kg = lots[lot_id].quantity_kg
                   /\ c.total = c.rate * lots[lot_id].quantity_kg
                   /\ \E i \in BidsNaming(lot_id) :
                         /\ bids[i].bid_amount = c.rate
                         /\ c.buyer = users[bids[i].bidder_id].phone_number

\* C15: generate_contract fails (404) exactly when the lot has no bids, otherwise
\* returns the contract of the current highest bid and quantity, changes nothing,
\* and agrees with confirm_sale on whether the lot has bids: confirm_sale answers
\* 400 for a lot exactly when generate_contract answers 404 for it.
C15_ContractAgreesWithConfirm ==
    [][\A lot_id \in 1..Len(lots) :
          /\ generate_contract(lot_id) => ContractReflectsState(lot_id)
          /\ confirm_sale(lot_id)
                => (reply'.status = 400 <=> BidsNaming(lot_id) = {})]_vars

\* C16: login answers 200, with the id and the type of the user, exactly when
\* some user's phone number and login code both equal the submitted pair; every
\* other pair, a missing field included, is answered 401; login changes no table,
\* sends nothing and emits nothing.
C16_LoginIffBothMatch ==
    [][\A phone_number \in LoginPhones, login_code \in LoginCodes :
          login(phone_number, login_code)
          => LET match == {i \in 1..Len(users) :
                             /\ phone_number # None /\ login_code # None
                             /\ users[i].phone_number = phone_number[1]
                             /\ users[i].login_code = login_code[1]}
             IN  /\ UNCHANGED <<users, lots, bids>>
                 /\ sent' = <<>> /\ emitted' = <<>>
                 /\ IF match # {}
                    THEN /\ reply'.status = 200
                         /\ reply'.data[1] \in match
                         /\ reply'.data[2] = users[reply'.data[1]].user_type
                    ELSE reply' = Reply("invalid_credentials", 401, <<>>)]_vars

\* The second user, a buyer, has just logged in.
C16_Witness ==
    /\ reply = Reply("login_ok", 200, <<2, "buyer">>)
    /\ Len(users) = 2

\* C17: a request emits exactly one bid_update event, carrying the lot id and the
\* amount of the bid, if it is a BID that was accepted and persisted, and emits
\* nothing otherwise (LIST, COLLECTIVE, confirm_sale, generate_contract, login, a
\* rejected or malformed BID): the events emitted are as many as the bids
\* persisted.
C17_OneEventPerAcceptedBid ==
    [][/\ Len(bids') \in {Len(bids), Len(bids) + 1}
       /\ Len(emitted') = Len(bids') - Len(bids)
       /\ BidAccepted =>
             LET b == bids'[Len(bids')]
             IN  /\ bids' = Append(bids, b)
                 /\ emitted' = <<[event |-> "bid_update", lot_id |-> b.lot_id,
                                  bid_amount |-> b.bid_amount]>>]_vars

\* The second bid of a lot was just accepted and its event emitted.
C17_Witness ==
    /\ reply.kind = "bid_recorded"
    /\ Len(bids) = 2
    /\ emitted = <<[event |-> "bid_update", lot_id |-> 1, bid_amount |-> 2300]>>

\* The open collective lots of a crop.
OpenCollective(crop) ==
    {l \in 1..Len(lots) : /\ lots[l].is_collective
                          /\ lots[l].status = "open"
                          /\ lots[l].crop_type = crop}

C19_SoldLotFrozen ==
    [][/\ \A l \in 1..Len(lots) :
             lots[l].status = "sold"
                => LET before == {i \in 1..Len(bids) : bids[i].lot_id = l}
                       after == {i \in 1..Len(bids') : bids'[i].lot_id = l}
                   IN  /\ lots'[l] = lots[l]
                       /\ after = before
                       /\ \A i \in before : bids'[i] = bids[i]
                       /\ before # {}
                       /\ \A a \in {bids'[i].bid_amount : i \in after} :
                             \E i \in before : a <= bids[i].bid_amount
       /\ reply'.kind = "bid_recorded" => lots[reply'.data[1]].status = "open"
       /\ reply'.kind = "collective_joined" => lots[reply'.data[1]].status = "open"
       /\ reply'.kind = "collective_created" => reply'.data[1] = Len(lots) + 1]_vars

\* The first lot, a collective lot, was sold, and a COLLECTIVE for its crop has
\* since opened a second lot; the first is as it was sold.
C19_Witness ==
    /\ Len(lots) = 2
    /\ reply = Reply("collective_created", 200, <<2>>)
    /\ lots[1].status = "sold"
    /\ lots[1].is_collective /\ lots[1].members = <<lots[1].farmer_id>>
    /\ lots[1].quantity_kg = 50
    /\ lots[2].crop_type = lots[1].crop_type

\* C20: confirm_sale does not look at the status of the lot: on a lot that is
\* already sold and has bids it succeeds again, leaves the lot sold and every
\* table as it is, and sends the two sale messages again, one to the farmer and
\* one to the winning bidder.
C20_ConfirmAgain ==
    [][\A lot_id \in 1..Len(lots) :
          (/\ confirm_sale(lot_id)
           /\ lots[lot_id].status = "sold"
           /\ \E i \in 1..Len(bids) : bids[i].lot_id = lot_id)
          => /\ reply'.status = 200
             /\ UNCHANGED <<users, lots, bids>>
             /\ Len(sent') = 2
             /\ \E f, b \in 1..2 :
                  /\ f # b
                  /\ sent'[f].to = users[lots[lot_id].farmer_id].phone_number
                  /\ \E i \in 1..Len(bids) :
                       /\ bids[i].lot_id = lot_id
                       /\ sent'[b].to = users[bids[i].bidder_id].phone_number]_vars

====
